---- MODULE Spec2Model ----
(***************************************************************************)
(* BlobManager (simulation/logic/blob_manager.py): the colony manager that *)
(* owns the scouter list and the knowledge dictionary, spawns and culls    *)
(* scouters, keeps the known-food list and computes the population target. *)
(* Board and FSMAnt are collaborators whose code is outside the manager;   *)
(* they are modelled from their documented interface.                      *)
(***************************************************************************)
EXTENDS Integers, Sequences, FiniteSets, TLC

VARIABLES
    board,      \* the Board: [touched, blob, food]
    knowledge,  \* self.knowledge, a dictionary (function on string keys)
    scouters,   \* self.scouters, the list of scouter positions
    phase,      \* "new" before __init__ ran its body, "ready" after it
    op,         \* the method of the last call
    arg,        \* the coordinate or random draw the last call was given
    ret,        \* what the last call returned
    err,        \* the exception the last call raised, or "none"
    notified,   \* whether the last call printed its message (move: line 91,
                \* add_scouter: line 124)
    tick_target, \* history: the target the last __init__ or move() computed
    joint_find  \* history: whether in the last move() two or more scouters
                \* stepped onto one food cell unknown when the tick began

vars == <<board, knowledge, scouters, phase, op, arg, ret, err, notified, tick_target,
         joint_find>>

----------------------------------------------------------------------------
(* Bounds of the model *)

Width == 2
Height == 1
MaxBlob == 1
MaxFood == 2
MaxScouters == 3
MaxDrift == 1

(* blob_manager.py line 141: the board area is divided by 100000 *)
AreaScale == 100000

----------------------------------------------------------------------------
(* Python helpers *)

Range(s) == {s[i] : i \in 1..Len(s)}

Max(a, b) == IF a >= b THEN a ELSE b

Min2(a, b) == IF a <= b THEN a ELSE b

\* del s[i]
DelAt(s, i) == [j \in 1..(Len(s) - 1) |-> IF j < i THEN s[j] ELSE s[j + 1]]

\* list.index(v): position of the first element equal to v, 0 when absent
IndexOf(s, v) ==
    IF v \in Range(s) THEN CHOOSE i \in 1..Len(s) : s[i] = v /\ \A j \in 1..(i - 1) : s[j] # v
    ELSE 0

\* d[k] = v
DictSet(d, k, v) == (k :> v) @@ d

\* del d[k]
DictDel(d, k) == [x \in (DOMAIN d) \ {k} |-> d[x]]

\* int(n / d) for d > 0: Python's int() truncates toward zero
IntTrunc(n, d) == IF n >= 0 THEN n \div d ELSE -((-n) \div d)

None == <<>>

----------------------------------------------------------------------------
(* Board (collaborator) *)

Cells == (0..(Width - 1)) \X (0..(Height - 1))

\* for x in range(width): for y in range(height)
ScanCell(i) == <<(i - 1) \div Height, (i - 1) % Height>>

ScanOrder == [i \in 1..(Width * Height) |-> ScanCell(i)]

has_food(b, c) == c \in b.food

is_touched(b, c) == c \in b.touched

get_blob(b, c) == b.blob[c]

RECURSIVE SumBlob(_, _)
SumBlob(b, i) == IF i = 0 THEN 0 ELSE SumBlob(b, i - 1) + b.blob[ScanOrder[i]]

get_blob_total(b) == SumBlob(b, Width * Height)

get_cover(b) == Cardinality(b.touched)

\* FSMAnt.update(): the scouter leaves blob on the square it stands on
update_blob(b, c) ==
    [b EXCEPT !.touched = @ \cup {c}, !.blob[c] = Min2(@ + 1, MaxBlob)]

\* Board.manage_blob(value, min_food_value)
manage_blob(b, value, min_food_value) ==
    [b EXCEPT !.blob = [c \in Cells |->
        IF c \notin b.touched THEN b.blob[c]
        ELSE IF c \in b.food /\ b.blob[c] <= min_food_value THEN b.blob[c]
        ELSE IF c \in b.food THEN Max(b.blob[c] - value, min_food_value)
        ELSE Max(b.blob[c] - value, 0)]]

BlankBoard == [touched |-> {}, blob |-> [c \in Cells |-> 0], food |-> {}]

BlobMaps(t) == {g \in [Cells -> 0..MaxBlob] : \A c \in Cells : g[c] > 0 => c \in t}

Boards ==
    UNION {{[touched |-> t, blob |-> bl, food |-> f] : bl \in BlobMaps(t), f \in SUBSET Cells} :
           t \in SUBSET Cells}

----------------------------------------------------------------------------
(* The persisted knowledge file *)

Config(bsf, cf, kff, gf, min, gd, rem) ==
    ("Computing" :> (("Blob Size Factor" :> bsf) @@ ("Covering Factor" :> cf)
                     @@ ("Known Foods Factor" :> kff) @@ ("Global Factor" :> gf)))
    @@ ("Scouters" :> ("Min" :> min))
    @@ ("Global Decrease" :> gd)
    @@ ("Remaining Blob on Food" :> rem)

KnowledgeFiles ==
    { Config(0, 0, 0, 1, 2, 1, 1),
      Config(0, 0, 1, 50000, 1, 1, 0),
      Config(1, -1, 0, 25000, 1, 1, 1) }

\* a knowledge file that lacks the key
Without(file, key) == [x \in (DOMAIN file) \ {key} |-> file[x]]

\* a knowledge file whose dictionary under outer lacks the key
WithoutNested(file, outer, key) == [file EXCEPT ![outer] = Without(@, key)]

\* files that lack one of the keys the manager reads
IncompleteFiles ==
    { Without(Config(0, 0, 0, 1, 1, 1, 1), "Global Decrease"),
      Without(Config(0, 0, 0, 1, 1, 1, 1), "Remaining Blob on Food"),
      Without(Config(0, 0, 0, 1, 1, 1, 1), "Scouters"),
      WithoutNested(Config(0, 0, 0, 1, 1, 1, 1), "Computing", "Global Factor") }

----------------------------------------------------------------------------
(* BlobManager *)

\* the keys compute_max_scouters reads (lines 137-143): a missing one raises
\* KeyError
ComputeKeysPresent(k) ==
    /\ "Computing" \in DOMAIN k
    /\ {"Blob Size Factor", "Covering Factor", "Known Foods Factor", "Global Factor"}
          \subseteq DOMAIN k["Computing"]
    /\ "Scouters" \in DOMAIN k
    /\ "Min" \in DOMAIN k["Scouters"]

\* the keys move() reads at line 109: a missing one raises KeyError
DecayKeysPresent(k) == {"Global Decrease", "Remaining Blob on Food"} \subseteq DOMAIN k

\* compute_max_scouters with Scouters.Min taken as a cap instead of a floor
compute_max_scouters_MinAsCap(k, b) ==
    LET total_scouters ==
            k["Computing"]["Blob Size Factor"] * get_blob_total(b)
            + k["Computing"]["Covering Factor"] * get_cover(b)
            + k["Computing"]["Known Foods Factor"] * Len(k["food"])
        n == total_scouters * k["Computing"]["Global Factor"] * (Height * Width)
    IN Min2(k["Scouters"]["Min"], IntTrunc(n, AreaScale))

\* compute_max_scouters without the floor at Scouters.Min
compute_max_scouters_NoFloor(k, b) ==
    LET total_scouters ==
            k["Computing"]["Blob Size Factor"] * get_blob_total(b)
            + k["Computing"]["Covering Factor"] * get_cover(b)
            + k["Computing"]["Known Foods Factor"] * Len(k["food"])
        n == total_scouters * k["Computing"]["Global Factor"] * (Height * Width)
    IN IntTrunc(n, AreaScale)

\* compute_max_scouters with the board width taken for its height
compute_max_scouters_SquareWidth(k, b) ==
    LET total_scouters ==
            k["Computing"]["Blob Size Factor"] * get_blob_total(b)
            + k["Computing"]["Covering Factor"] * get_cover(b)
            + k["Computing"]["Known Foods Factor"] * Len(k["food"])
        n == total_scouters * k["Computing"]["Global Factor"] * (Width * Width)
    IN Max(k["Scouters"]["Min"], IntTrunc(n, AreaScale))

\* compute_max_scouters (lines 133-143); the float product is taken exactly,
\* as the fraction n / AreaScale
compute_max_scouters(k, b) ==
    LET total_scouters ==
            k["Computing"]["Blob Size Factor"] * get_blob_total(b)
            + k["Computing"]["Covering Factor"] * get_cover(b)
            + k["Computing"]["Known Foods Factor"] * Len(k["food"])
        n == total_scouters * k["Computing"]["Global Factor"] * (Height * Width)
    IN Max(k["Scouters"]["Min"], IntTrunc(n, AreaScale))

\* the scan of find_blob_square without its is_touched test
RECURSIVE Availables_Untouched(_, _)
Availables_Untouched(b, i) ==
    IF i = 0 THEN <<>>
    ELSE Append(Availables_Untouched(b, i - 1), <<ScanOrder[i], get_blob(b, ScanOrder[i]) + 1>>)

\* find_blob_square, lines 150-157: the touched squares in scan order, each
\* with qt = blob + 1
RECURSIVE Availables(_, _)
Availables(b, i) ==
    IF i = 0 THEN <<>>
    ELSE IF is_touched(b, ScanOrder[i])
         THEN Append(Availables(b, i - 1), <<ScanOrder[i], get_blob(b, ScanOrder[i]) + 1>>)
         ELSE Availables(b, i - 1)

RECURSIVE SumQt(_, _)
SumQt(av, i) == IF i = 0 THEN 0 ELSE SumQt(av, i - 1) + av[i][2]

\* the value Python returns when the walk ends without a return
NoSquare == <<-1, -1>>

\* find_blob_square, lines 165-169: the walk over availables
RECURSIVE Walk(_, _, _, _)
Walk(av, i, acc, index_pond) ==
    IF i > Len(av) THEN NoSquare
    ELSE IF acc + av[i][2] >= index_pond THEN av[i][1]
    ELSE Walk(av, i + 1, acc + av[i][2], index_pond)

\* random.randrange(int(total_blob)), line 164
Draws(b) ==
    LET av == Availables(b, Width * Height)
    IN IF Len(av) = 0 THEN {0} ELSE 0..(SumQt(av, Len(av)) - 1)

\* find_blob_square for the draw index_pond
find_blob_square(b, index_pond) ==
    LET av == Availables(b, Width * Height)
    IN IF Len(av) = 0 THEN <<0, 0>> ELSE Walk(av, 1, 0, index_pond)

\* an intermediate state of the scouter list: deads holds, for each scouter
\* queued in move()'s deads list, its current index in scs (0 once it has
\* left the list)
Outcome(scs, deads, e) == [scs |-> scs, deads |-> deads, err |-> e]

\* add_scouter spawning also when the count already equals the target
add_scouter_AtTarget(o, k, b) ==
    IF Len(o.scs) <= k["max_scouters"]
    THEN IF Len(k["food"]) # 0
         THEN {[o EXCEPT !.scs = Append(@, k["food"][index])] : index \in 1..Len(k["food"])}
         ELSE {[o EXCEPT !.scs = Append(@, find_blob_square(b, d))] : d \in Draws(b)}
    ELSE {o}

\* add_scouter spawning on a blob square even when food is known
add_scouter_IgnoresFood(o, k, b) ==
    IF Len(o.scs) < k["max_scouters"]
    THEN {[o EXCEPT !.scs = Append(@, find_blob_square(b, d))] : d \in Draws(b)}
    ELSE {o}

\* add_scouter (lines 111-124): one result per random choice
add_scouter(o, k, b) ==
    IF Len(o.scs) < k["max_scouters"]
    THEN IF Len(k["food"]) # 0
         THEN {[o EXCEPT !.scs = Append(@, k["food"][index])] : index \in 1..Len(k["food"])}
         ELSE {IF find_blob_square(b, d) = NoSquare
               THEN [o EXCEPT !.err = "TypeError"]
               ELSE [o EXCEPT !.scs = Append(@, find_blob_square(b, d))] : d \in Draws(b)}
    ELSE {o}

\* the index each queued dead scouter has after del scs[nbr]
Shift(deads, nbr) ==
    [i \in 1..Len(deads) |->
        IF deads[i] = nbr THEN 0 ELSE IF deads[i] > nbr THEN deads[i] - 1 ELSE deads[i]]

\* the ValueError random.randrange(0) raises
EmptyRange == "ValueError: empty range for randrange()"

\* remove_scouter (lines 126-131): random.randrange(0) raises ValueError
remove_scouter(o) ==
    IF Len(o.scs) = 0 THEN {[o EXCEPT !.err = EmptyRange]}
    ELSE {[o EXCEPT !.scs = DelAt(@, nbr), !.deads = Shift(@, nbr)] : nbr \in 1..Len(o.scs)}

\* for _ in range(n): self.add_scouter()
RECURSIVE AddLoop(_, _, _, _)
AddLoop(o, n, k, b) ==
    IF n = 0 \/ o.err # "none" THEN {o}
    ELSE UNION {AddLoop(o2, n - 1, k, b) : o2 \in add_scouter(o, k, b)}

\* for _ in range(n): self.remove_scouter()
RECURSIVE RemoveLoop(_, _)
RemoveLoop(o, n) ==
    IF n = 0 \/ o.err # "none" THEN {o}
    ELSE UNION {RemoveLoop(o2, n - 1) : o2 \in remove_scouter(o)}

\* the dead pass removing each dead scouter without spawning a replacement
RECURSIVE DeadLoop_NoReplace(_, _, _)
DeadLoop_NoReplace(o, k, b) ==
    IF o.deads = <<>> \/ o.err # "none" THEN {o}
    ELSE IF Head(o.deads) = 0 THEN {[o EXCEPT !.err = "ValueError"]}
    ELSE DeadLoop_NoReplace([o EXCEPT !.scs = DelAt(@, Head(o.deads)),
                                      !.deads = Shift(Tail(@), Head(o.deads))], k, b)

\* move, lines 105-107: list.remove(dead) raises ValueError when dead is no
\* longer in the list
RECURSIVE DeadLoop(_, _, _)
DeadLoop(o, k, b) ==
    IF o.deads = <<>> \/ o.err # "none" THEN {o}
    ELSE IF Head(o.deads) = 0 THEN {[o EXCEPT !.err = "ValueError"]}
    ELSE LET removed == [o EXCEPT !.scs = DelAt(@, Head(o.deads)),
                                  !.deads = Shift(Tail(@), Head(o.deads))]
         IN UNION {DeadLoop(o2, k, b) : o2 \in add_scouter(removed, k, b)}

\* __init__, lines 50-54: the known food is every touched food square
RECURSIVE ScanFood(_, _)
ScanFood(b, i) ==
    IF i = 0 THEN <<>>
    ELSE IF has_food(b, ScanOrder[i]) /\ is_touched(b, ScanOrder[i])
         THEN Append(ScanFood(b, i - 1), ScanOrder[i])
         ELSE ScanFood(b, i - 1)

\* __init__ computing the target before the board is scanned for food
InitKnowledge_TargetBeforeScan(file, b) ==
    LET k1 == DictSet(file, "food", <<>>)
        k2 == DictSet(k1, "max_scouters", compute_max_scouters(k1, b))
    IN [k2 EXCEPT !["food"] = ScanFood(b, Width * Height)]

\* __init__, lines 50-57: the knowledge after the file is loaded
InitKnowledge(file, b) ==
    LET k1 == DictSet(file, "food", ScanFood(b, Width * Height))
    IN DictSet(k1, "max_scouters", compute_max_scouters(k1, b))

\* __init__, lines 58-59: while len(self.scouters) < max_scouters
RECURSIVE InitLoop(_, _, _)
InitLoop(o, k, b) ==
    IF o.err # "none" \/ ~(Len(o.scs) < k["max_scouters"]) THEN {o}
    ELSE UNION {InitLoop(o2, k, b) : o2 \in add_scouter(o, k, b)}

\* food_discovered (lines 186-193)
food_discovered(k, x, y) == [k EXCEPT !["food"] = Append(@, <<x, y>>)]

\* food_destroyed (lines 201-207): list.remove deletes the first occurrence
\* and raises ValueError when there is none
food_destroyed(k, x, y) ==
    IF <<x, y>> \in Range(k["food"])
    THEN [knowledge |-> [k EXCEPT !["food"] = DelAt(@, IndexOf(@, <<x, y>>))], err |-> "none"]
    ELSE [knowledge |-> k, err |-> "ValueError"]

\* reset, lines 177-179: every scouter standing on (x, y) leaves the list
ResetScouters(scs, x, y) == SelectSeq(scs, LAMBDA s : s # <<x, y>>)

\* reset, lines 181-184: the loop over the copy of the food list
RECURSIVE ResetFood(_, _, _, _, _)
ResetFood(k, copy, i, x, y) ==
    IF i = 0 THEN k
    ELSE LET k1 == ResetFood(k, copy, i - 1, x, y)
         IN IF copy[i] = <<x, y>>
            THEN [k1 EXCEPT !["food"] = DelAt(@, IndexOf(@, copy[i])),
                            !["max_scouters"] = @ - 1]
            ELSE k1

\* reset (lines 171-184)
reset(k, scs, x, y) ==
    [scouters |-> ResetScouters(scs, x, y),
     knowledge |-> ResetFood(k, k["food"], Len(k["food"]), x, y)]

\* json.dumps(..., sort_keys=True) writes the keys in string order
KeyOrder ==
    << "Blob Size Factor", "Computing", "Covering Factor", "Global Decrease",
       "Global Factor", "Known Foods Factor", "Min", "Remaining Blob on Food",
       "Scouters", "food", "max_scouters" >>

\* the keys whose value is itself a dictionary
NestedKeys == {"Computing", "Scouters"}

SortedKeys(d) == SelectSeq(KeyOrder, LAMBDA key : key \in DOMAIN d)

DumpsFlat(d) == [i \in 1..Len(SortedKeys(d)) |-> <<SortedKeys(d)[i], d[SortedKeys(d)[i]]>>]

\* json.dumps(d, indent=4, sort_keys=True): the text as the list of its
\* (key, value) lines
Dumps(d) ==
    [i \in 1..Len(SortedKeys(d)) |->
        LET key == SortedKeys(d)[i]
        IN <<key, IF key \in NestedKeys THEN DumpsFlat(d[key]) ELSE d[key]>>]

LoadsFlat(text) == [key \in {text[i][1] : i \in 1..Len(text)} |->
                      text[CHOOSE i \in 1..Len(text) : text[i][1] = key][2]]

\* json.load(file)
Loads(text) ==
    [key \in {text[i][1] : i \in 1..Len(text)} |->
        LET v == text[CHOOSE i \in 1..Len(text) : text[i][1] = key][2]
        IN IF key \in NestedKeys THEN LoadsFlat(v) ELSE v]

\* save without del d["max_scouters"]
save_KeepsTarget(k) ==
    LET d == k
        d1 == DictDel(d, "food")
    IN [ret |-> Dumps(d1), knowledge |-> k]

\* save (lines 63-70): the text returned and the knowledge left behind
save(k) ==
    LET d == k
        d1 == DictDel(d, "food")
        d2 == DictDel(d1, "max_scouters")
    IN [ret |-> Dumps(d2), knowledge |-> k]

\* move, lines 77-85 without the `not in` test: every scouter stepping onto
\* a food cell reports it
RECURSIVE MoveLoop_NoGuard(_, _, _, _, _)
MoveLoop_NoGuard(scs, newpos, k, b, i) ==
    IF i = 0 THEN [scs |-> scs, deads |-> <<>>, knowledge |-> k, board |-> b]
    ELSE LET p == MoveLoop_NoGuard(scs, newpos, k, b, i - 1)
             new == newpos[i]
         IN IF scs[i] = new
            THEN [p EXCEPT !.deads = Append(@, i)]
            ELSE [p EXCEPT !.scs[i] = new,
                           !.knowledge =
                               IF has_food(p.board, new)
                               THEN food_discovered(@, new[1], new[2]) ELSE @,
                           !.board = update_blob(@, new)]

\* move, lines 77-87: the scouters 1..i have moved, newpos[j] being where
\* scouter.move() took scouter j
RECURSIVE MoveLoop(_, _, _, _, _)
MoveLoop(scs, newpos, k, b, i) ==
    IF i = 0 THEN [scs |-> scs, deads |-> <<>>, knowledge |-> k, board |-> b]
    ELSE LET p == MoveLoop(scs, newpos, k, b, i - 1)
             new == newpos[i]
         IN IF scs[i] = new
            THEN [p EXCEPT !.deads = Append(@, i)]
            ELSE [p EXCEPT !.scs[i] = new,
                           !.knowledge =
                               IF has_food(p.board, new) /\ new \notin Range(p.knowledge["food"])
                               THEN food_discovered(@, new[1], new[2]) ELSE @,
                           !.board = update_blob(@, new)]

\* whether two or more scouters step, with the moves newpos, onto one food
\* cell that is not known yet (lines 80-85)
JointFind(scs, newpos, k, b) ==
    \E c \in Cells :
       /\ has_food(b, c) /\ c \notin Range(k["food"])
       /\ Cardinality({i \in 1..Len(scs) : newpos[i] = c /\ scs[i] # c}) >= 2

\* move() printing the new target on every tick
TargetChanged_EveryTick(new_max, k) == TRUE

\* move, line 90: the recomputed target is compared with the cached one
TargetChanged(new_max, k) == new_max # k["max_scouters"]

\* the shrink pass culling one scouter too many
Reconcile_OneTooMany(o, k, b) ==
    LET diff == k["max_scouters"] - Len(o.scs)
    IN IF diff > 0 THEN AddLoop(o, diff, k, b)
       ELSE IF diff < 0 THEN RemoveLoop(o, -diff + 1)
       ELSE {o}

\* move, lines 94-103: the list is grown or shrunk to the target
Reconcile(o, k, b) ==
    LET diff == k["max_scouters"] - Len(o.scs)
    IN IF diff > 0 THEN AddLoop(o, diff, k, b)
       ELSE IF diff < 0 THEN RemoveLoop(o, -diff)
       ELSE {o}

----------------------------------------------------------------------------
(* The calls *)

Init ==
    /\ board \in Boards
    /\ knowledge \in KnowledgeFiles \cup IncompleteFiles
    /\ scouters = <<>>
    /\ phase = "new"
    /\ op = "load"
    /\ arg = None
    /\ ret = None
    /\ err = "none"
    /\ notified = FALSE
    /\ tick_target = 0
    /\ joint_find = FALSE

\* BlobManager(board, knowledge), lines 50-61
Construct ==
    /\ phase = "new"
    /\ IF ComputeKeysPresent(knowledge)
       THEN LET k == InitKnowledge(knowledge, board)
            IN /\ k["max_scouters"] <= MaxScouters
               /\ \E o \in InitLoop(Outcome(<<>>, <<>>, "none"), k, board) :
                     /\ scouters' = o.scs
                     /\ err' = o.err
                     /\ phase' = IF o.err = "none" THEN "ready" ELSE "failed"
               /\ knowledge' = k
               /\ tick_target' = k["max_scouters"]
       ELSE /\ knowledge' = DictSet(knowledge, "food", ScanFood(board, Width * Height))
            /\ scouters' = <<>>
            /\ err' = "KeyError"
            /\ phase' = "failed"
            /\ UNCHANGED tick_target
    /\ op' = "init"
    /\ joint_find' = FALSE
    /\ arg' = None
    /\ ret' = None
    /\ notified' = FALSE
    /\ UNCHANGED board

\* move() (lines 72-109)
Move ==
    /\ phase = "ready"
    /\ \E newpos \in [1..Len(scouters) -> Cells] :
          LET p == MoveLoop(scouters, newpos, knowledge, board, Len(scouters))
              new_max == compute_max_scouters(p.knowledge, p.board)
              k == [p.knowledge EXCEPT !["max_scouters"] = new_max]
          IN /\ new_max <= MaxScouters
             /\ \E o1 \in Reconcile(Outcome(p.scs, p.deads, "none"), k, p.board) :
                   \E o2 \in DeadLoop(o1, k, p.board) :
                      /\ scouters' = o2.scs
                      /\ err' = IF o2.err = "none" /\ ~DecayKeysPresent(k)
                                THEN "KeyError" ELSE o2.err
                      /\ board' = IF o2.err = "none" /\ DecayKeysPresent(k)
                                  THEN manage_blob(p.board, k["Global Decrease"],
                                                   k["Remaining Blob on Food"])
                                  ELSE p.board
             /\ knowledge' = k
             /\ notified' = TargetChanged(new_max, knowledge)
             /\ tick_target' = new_max
             /\ joint_find' = JointFind(scouters, newpos, knowledge, board)
    /\ op' = "move"
    /\ arg' = None
    /\ ret' = None
    /\ UNCHANGED phase

\* reset(x, y)
Reset ==
    /\ phase = "ready"
    /\ \E c \in Cells :
          /\ reset(knowledge, scouters, c[1], c[2]).knowledge["max_scouters"]
                >= knowledge["Scouters"]["Min"] - MaxDrift
          /\ scouters' = reset(knowledge, scouters, c[1], c[2]).scouters
          /\ knowledge' = reset(knowledge, scouters, c[1], c[2]).knowledge
          /\ arg' = c
    /\ op' = "reset"
    /\ joint_find' = FALSE
    /\ ret' = None
    /\ err' = "none"
    /\ notified' = FALSE
    /\ UNCHANGED <<board, phase, tick_target>>

\* food_discovered(x, y), called from outside the manager
FoodDiscovered ==
    /\ phase = "ready"
    /\ Len(knowledge["food"]) < MaxFood
    /\ \E c \in Cells :
          /\ knowledge' = food_discovered(knowledge, c[1], c[2])
          /\ arg' = c
    /\ op' = "food_discovered"
    /\ joint_find' = FALSE
    /\ ret' = None
    /\ err' = "none"
    /\ notified' = FALSE
    /\ UNCHANGED <<board, scouters, phase, tick_target>>

\* food_destroyed(x, y)
FoodDestroyed ==
    /\ phase = "ready"
    /\ \E c \in Cells :
          /\ knowledge' = food_destroyed(knowledge, c[1], c[2]).knowledge
          /\ err' = food_destroyed(knowledge, c[1], c[2]).err
          /\ arg' = c
    /\ op' = "food_destroyed"
    /\ joint_find' = FALSE
    /\ ret' = None
    /\ notified' = FALSE
    /\ UNCHANGED <<board, scouters, phase, tick_target>>

\* add_scouter(), called from outside the manager
AddScouter ==
    /\ phase = "ready"
    /\ \E o \in add_scouter(Outcome(scouters, <<>>, "none"), knowledge, board) :
          /\ scouters' = o.scs
          /\ err' = o.err
    /\ op' = "add_scouter"
    /\ joint_find' = FALSE
    /\ arg' = None
    /\ ret' = None
    /\ notified' = ~(Len(scouters) < knowledge["max_scouters"])
    /\ UNCHANGED <<board, knowledge, phase, tick_target>>

\* save()
Save ==
    /\ phase = "ready"
    /\ ret' = save(knowledge).ret
    /\ knowledge' = save(knowledge).knowledge
    /\ op' = "save"
    /\ joint_find' = FALSE
    /\ arg' = None
    /\ err' = "none"
    /\ notified' = FALSE
    /\ UNCHANGED <<board, scouters, phase, tick_target>>

\* compute_max_scouters()
ComputeMaxScouters ==
    /\ phase = "ready"
    /\ ret' = compute_max_scouters(knowledge, board)
    /\ op' = "compute_max_scouters"
    /\ joint_find' = FALSE
    /\ arg' = None
    /\ err' = "none"
    /\ notified' = FALSE
    /\ UNCHANGED <<board, knowledge, scouters, phase, tick_target>>

\* find_blob_square(), arg being the value random.randrange returned
FindBlobSquare ==
    /\ phase = "ready"
    /\ \E index_pond \in Draws(board) :
          /\ ret' = find_blob_square(board, index_pond)
          /\ arg' = index_pond
    /\ op' = "find_blob_square"
    /\ joint_find' = FALSE
    /\ err' = "none"
    /\ notified' = FALSE
    /\ UNCHANGED <<board, knowledge, scouters, phase, tick_target>>

Next ==
    \/ Construct
    \/ Move
    \/ Reset
    \/ FoodDiscovered
    \/ FoodDestroyed
    \/ AddScouter
    \/ Save
    \/ ComputeMaxScouters
    \/ FindBlobSquare

Spec == Init /\ [][Next]_vars

\* the manager when nothing outside it calls food_discovered()
NextInternal ==
    \/ Construct
    \/ Move
    \/ Reset
    \/ FoodDestroyed
    \/ AddScouter
    \/ Save
    \/ ComputeMaxScouters
    \/ FindBlobSquare

SpecInternal == Init /\ [][NextInternal]_vars

----------------------------------------------------------------------------
(* Properties *)

Ready == phase = "ready"

ScoutersMin == knowledge["Scouters"]["Min"]

\* the number of occurrences of v in the list s
Count(s, v) == Cardinality({i \in 1..Len(s) : s[i] = v})

\* C1: after construction and after every completed move() tick the number
\* of active scouters is at least Scouters.Min
C1_ScoutersNeverBelowMin ==
    (Ready /\ op \in {"init", "move"} /\ err = "none") => Len(scouters) >= ScoutersMin

\* a completed tick that changed the target and left exactly Min scouters
C1_Witness ==
    Ready /\ op = "move" /\ err = "none" /\ notified /\ Len(scouters) = ScoutersMin

\* C2: construction returns, and when it has returned the scouter count
\* equals the target compute_max_scouters() gives for the initial board
C2_ConstructionReachesTarget ==
    /\ (phase = "new" /\ ComputeKeysPresent(knowledge)
          /\ InitKnowledge(knowledge, board)["max_scouters"] <= MaxScouters)
          => (ENABLED Construct)
    /\ (op = "init" /\ err # "KeyError") =>
          /\ Ready /\ err = "none"
          /\ knowledge["max_scouters"] = compute_max_scouters(knowledge, board)
          /\ Len(scouters) = knowledge["max_scouters"]

\* a manager constructed on a board with touched food, with two scouters
C2_Witness ==
    Ready /\ op = "init" /\ knowledge["food"] # <<>> /\ Len(scouters) >= 2

\* C3 as claimed: in every state of a constructed manager the cached target
\* is at least Scouters.Min
C3_TargetAlwaysAtLeastMin == Ready => knowledge["max_scouters"] >= ScoutersMin

\* C3 as amended: the cached target is at least Scouters.Min after
\* construction and after every move(), and only reset() takes it below
C3_TargetAtLeastMinUntilReset ==
    /\ []((Ready /\ op \in {"init", "move"}) => knowledge["max_scouters"] >= ScoutersMin)
    /\ [][(Ready /\ knowledge["max_scouters"] >= ScoutersMin
              /\ knowledge'["max_scouters"] < ScoutersMin) => op' = "reset"]_vars

\* reset() has taken the cached target below Scouters.Min
C3_Witness == Ready /\ op = "reset" /\ knowledge["max_scouters"] < ScoutersMin

\* C4: after food_discovered(x, y) the known food holds (x, y) exactly once
C4_FoodDiscoveredIdempotent ==
    (Ready /\ op = "food_discovered") => Count(knowledge["food"], arg) = 1

\* C5: reset(x, y) removes all and only the scouters at (x, y); known food at
\* (x, y) is forgotten and the cached target goes down by exactly one; with
\* neither a scouter nor known food at (x, y) nothing changes
C5_ResetEffect ==
    [][(Ready /\ op' = "reset") =>
          /\ scouters' = SelectSeq(scouters, LAMBDA s : s # arg')
          /\ arg' \notin Range(knowledge'["food"])
          /\ arg' \in Range(knowledge["food"]) =>
                knowledge'["max_scouters"] = knowledge["max_scouters"] - 1
          /\ (arg' \notin Range(knowledge["food"]) /\ arg' \notin Range(scouters)) =>
                (scouters' = scouters /\ knowledge' = knowledge)]_vars

\* C6: the number of draws that select a touched square equals its weight
\* blob + 1
C6_SelectionCountIsWeight ==
    (Ready /\ op = "find_blob_square") =>
        \A c \in board.touched :
            Cardinality({d \in Draws(board) : find_blob_square(board, d) = c})
                = get_blob(board, c) + 1

\* C7: find_blob_square() returns a touched square when there is one, and
\* (0, 0) when there is none
C7_AlwaysReturnsTouched ==
    (Ready /\ op = "find_blob_square") =>
        IF board.touched = {} THEN ret = <<0, 0>> ELSE ret \in board.touched

\* a call on a board whose squares are all touched that returned another
\* square than the first
C7_Witness ==
    /\ Ready /\ op = "find_blob_square"
    /\ board.touched = Cells /\ ret \in Cells /\ ret # <<0, 0>>

\* C8: every touched square is returned for at least one draw
C8_EveryTouchedReachable ==
    (Ready /\ op = "find_blob_square") =>
        \A c \in board.touched : \E d \in Draws(board) : find_blob_square(board, d) = c

\* the keys of a dumped text
TextKeys(text) == {text[i][1] : i \in 1..Len(text)}

\* C9: the text save() returns holds neither food nor max_scouters and holds
\* every other key with its value; loading it into a fresh manager on a
\* blank board and saving again returns the same text; save() leaves the
\* knowledge as it was
C9_SaveRoundTrip ==
    /\ []((Ready /\ op = "save") =>
            /\ TextKeys(ret) = (DOMAIN knowledge) \ {"food", "max_scouters"}
            /\ \A key \in TextKeys(ret) : Loads(ret)[key] = knowledge[key]
            /\ save(InitKnowledge(Loads(ret), BlankBoard)).ret = ret)
    /\ [][(Ready /\ op' = "save") => knowledge' = knowledge]_vars

\* save() on a manager that knows food and whose target is above the minimum
C9_Witness ==
    /\ Ready /\ op = "save"
    /\ knowledge["food"] # <<>> /\ knowledge["max_scouters"] > ScoutersMin

\* F * AreaScale for the current board and knowledge
FScaled ==
    (knowledge["Computing"]["Blob Size Factor"] * get_blob_total(board)
     + knowledge["Computing"]["Covering Factor"] * get_cover(board)
     + knowledge["Computing"]["Known Foods Factor"] * Len(knowledge["food"]))
    * knowledge["Computing"]["Global Factor"] * Height * Width

\* C10: compute_max_scouters() returns max(Scouters.Min, floor(F)), also for
\* negative F, and Scouters.Min when every factor but Global Factor is 0
C10_ComputeIsFlooredMax ==
    (Ready /\ op = "compute_max_scouters") =>
        /\ ret = Max(ScoutersMin, FScaled \div AreaScale)
        /\ (/\ knowledge["Computing"]["Blob Size Factor"] = 0
            /\ knowledge["Computing"]["Covering Factor"] = 0
            /\ knowledge["Computing"]["Known Foods Factor"] = 0) => ret = ScoutersMin

\* a call for which F is negative and not an integer
C10_Witness ==
    /\ Ready /\ op = "compute_max_scouters"
    /\ FScaled < 0 /\ FScaled % AreaScale # 0

\* C11: food_destroyed(x, y) on a coordinate that is not known raises
\* ValueError and changes nothing; on a known coordinate it succeeds and
\* (x, y) is no longer known afterwards
C11_FoodDestroyedEffect ==
    [][(Ready /\ op' = "food_destroyed") =>
          IF arg' \notin Range(knowledge["food"])
          THEN err' = "ValueError" /\ knowledge' = knowledge /\ scouters' = scouters
          ELSE err' = "none" /\ arg' \notin Range(knowledge'["food"])]_vars

\* the fields the persisted Knowledge is required to have
RequiredPresent(k) == ComputeKeysPresent(k) /\ DecayKeysPresent(k)

\* C12: construction fails with a configuration error whenever a required
\* field is missing from the persisted Knowledge, and no move() fails later
\* on a missing field
C12_MissingFieldFailsConstruction ==
    /\ (op = "init" /\ ~RequiredPresent(knowledge)) =>
          (err = "KeyError" /\ phase = "failed")
    /\ op = "move" => err # "KeyError"

\* C13: add_scouter() never raises the scouter count above the cached
\* target: with the count at or above the target it is a logged no-op that
\* leaves the list unchanged and raises nothing; otherwise it appends
\* exactly one scouter
C13_AddScouterRespectsTarget ==
    [][(Ready /\ op' = "add_scouter") =>
          /\ Len(scouters') <= Max(Len(scouters), knowledge["max_scouters"])
          /\ IF Len(scouters) >= knowledge["max_scouters"]
             THEN scouters' = scouters /\ err' = "none" /\ notified'
             ELSE /\ Len(scouters') = Len(scouters) + 1
                  /\ SubSeq(scouters', 1, Len(scouters)) = scouters
                  /\ ~notified']_vars

\* add_scouter() was called with the count equal to the target
C13_Witness ==
    /\ Ready /\ op = "add_scouter" /\ err = "none" /\ notified
    /\ Len(scouters) = knowledge["max_scouters"] /\ Len(scouters) >= 1

\* the coordinates add_scouter() may spawn on (lines 115-119, 159-160)
SpawnSquares(k, b) ==
    IF k["food"] # <<>> THEN Range(k["food"])
    ELSE IF b.touched # {} THEN b.touched
    ELSE {<<0, 0>>}

\* C14: a scouter spawned by add_scouter() is placed on a known food
\* coordinate when any is known, otherwise on a touched cell when one
\* exists, otherwise on (0, 0)
C14_SpawnPlacement ==
    /\ []((Ready /\ op = "init") =>
            \A i \in 1..Len(scouters) : scouters[i] \in SpawnSquares(knowledge, board))
    /\ [][(Ready /\ op' = "add_scouter" /\ Len(scouters') > Len(scouters)) =>
            scouters'[Len(scouters')] \in SpawnSquares(knowledge, board)]_vars

\* add_scouter() spawned on known food although a touched cell without
\* known food exists
C14_Witness ==
    /\ Ready /\ op = "add_scouter" /\ err = "none" /\ ~notified
    /\ knowledge["food"] # <<>>
    /\ board.touched \ Range(knowledge["food"]) # {}
    /\ scouters[Len(scouters)] \in Range(knowledge["food"])

\* C15: at the end of every completed move() the scouter count equals the
\* target recomputed in that tick: the reconcile pass brings the count to
\* the target and the dead pass, replacing one for one, keeps it there
C15_CountEqualsTargetAfterTick ==
    /\ (Ready /\ op = "move" /\ err = "none") =>
          Len(scouters) = knowledge["max_scouters"]
    /\ Ready =>
          \A newpos \in [1..Len(scouters) -> Cells] :
             LET p == MoveLoop(scouters, newpos, knowledge, board, Len(scouters))
                 new_max == compute_max_scouters(p.knowledge, p.board)
                 k == [p.knowledge EXCEPT !["max_scouters"] = new_max]
             IN new_max <= MaxScouters =>
                   \A o1 \in Reconcile(Outcome(p.scs, p.deads, "none"), k, p.board) :
                      /\ o1.err = "none"
                      /\ Len(o1.scs) = new_max
                      /\ \A o2 \in DeadLoop(o1, k, p.board) :
                            o2.err = "none" => Len(o2.scs) = Len(o1.scs)

\* a completed tick that changed the target and left two or more scouters
C15_Witness ==
    /\ Ready /\ op = "move" /\ err = "none" /\ notified
    /\ Len(scouters) >= 2 /\ Len(scouters) = knowledge["max_scouters"]

\* C16: a scouter queued as dead is still in the list when the dead pass
\* removes it, whatever the shrink pass culled: move() never fails on
\* self.scouters.remove(dead)
C16_DeadStillListed ==
    (Ready /\ op = "move") => err # "ValueError"

\* C17: with Scouters.Min above zero no tick calls remove_scouter() on an
\* empty scouter list
C17_NeverCullsEmptyList ==
    (Ready /\ op = "move" /\ ScoutersMin > 0) => err # EmptyRange

\* a tick with Scouters.Min above zero whose shrink pass culled down to the
\* target (the scouter it culled was queued as dead)
C17_Witness ==
    /\ Ready /\ op = "move" /\ ScoutersMin > 0 /\ err = "ValueError"
    /\ Len(scouters) = knowledge["max_scouters"]

\* C18 as claimed: a tick prints the notification exactly when the target
\* it recomputed differs from the target of the previous tick (or of
\* construction), whatever reset() did to the cached target in between
C18_NotifiedIffTargetDiffersFromLastTick ==
    [][(Ready /\ op' = "move") => (notified' <=> tick_target' # tick_target)]_vars

\* C18 as the code has it: a tick prints the notification exactly when the
\* target it recomputed differs from the cached target it found, which is
\* the previous tick's target less the decrements of reset() since
C18_NotifiedIffTargetDiffersFromCached ==
    [][(Ready /\ op' = "move") =>
          /\ knowledge'["max_scouters"] = tick_target'
          /\ notified' <=> knowledge'["max_scouters"] # knowledge["max_scouters"]]_vars

\* a tick printed the notification although the factors are all zero, so
\* that every tick and construction compute the same target Scouters.Min
C18_Witness ==
    /\ Ready /\ op = "move" /\ notified
    /\ knowledge["Computing"]["Blob Size Factor"] = 0
    /\ knowledge["Computing"]["Covering Factor"] = 0
    /\ knowledge["Computing"]["Known Foods Factor"] = 0
    /\ knowledge["max_scouters"] = ScoutersMin

\* C19: a tick moves every scouter first (a scouter stepping onto an
\* unknown food cell makes it known at once, so it counts in this tick's
\* target), then recomputes the target on the board as the moves left it,
\* then grows or shrinks, then replaces the dead, and calls manage_blob
\* exactly once, last, with Global Decrease and Remaining Blob on Food
C19_TickOrder ==
    [][(Ready /\ op' = "move") =>
          \E newpos \in [1..Len(scouters) -> Cells] :
             LET p == MoveLoop(scouters, newpos, knowledge, board, Len(scouters))
             IN /\ \A i \in 1..Len(scouters) :
                      (newpos[i] # scouters[i] /\ has_food(board, newpos[i]))
                         => newpos[i] \in Range(knowledge'["food"])
                /\ knowledge'["max_scouters"] = compute_max_scouters(knowledge', p.board)
                /\ Len(scouters') = knowledge'["max_scouters"]
                /\ DecayKeysPresent(knowledge)
                /\ board' = manage_blob(p.board, knowledge["Global Decrease"],
                                        knowledge["Remaining Blob on Food"])]_vars

\* C20: without an external food_discovered() call, construction followed by
\* any move(), reset() and food_destroyed() calls keeps the known-food list
\* free of duplicates, also when several scouters step onto the same unknown
\* food cell in one tick
C20_NoDuplicateFood ==
    Ready => \A c \in Cells : Count(knowledge["food"], c) <= 1

\* a completed tick in which two scouters stepped onto the same unknown food
\* cell
C20_Witness ==
    /\ Ready /\ op = "move" /\ err = "none" /\ joint_find
    /\ \E c \in Range(scouters) : has_food(board, c) /\ Count(knowledge["food"], c) = 1

====
